---- MODULE Spec2Model ----
(***************************************************************************)
(* The request-dispatch pipeline of the Alpacon MCP server: the credential *)
(* store (utils/token_manager.py), the decorator pipeline                  *)
(* (utils/decorators.py) and the tool functions that run behind it or      *)
(* beside it (tools/*.py).                                                 *)
(*                                                                         *)
(* A Python string is a TLA+ string; Chars gives its characters, so the    *)
(* format validators work on the characters.  None and "argument not      *)
(* supplied" are the two atoms NONE and ABSENT.  A response envelope is a  *)
(* record whose DOMAIN is the set of keys of the returned dict.            *)
(***************************************************************************)
EXTENDS Integers, Sequences, FiniteSets, TLC

VARIABLES
    file,       \* the persisted token.json: [state, data]
    tokens,     \* TokenManager.tokens of every TokenManager object
    res,        \* the tool call that has returned and is not yet delivered
    batch,      \* the execute_command_multi_server call in progress
    lastSet,    \* history: per key, the token of the last set not yet removed
    prevOp,     \* history: the store operation before the one in res
    boot,       \* what the process found when it started, and the directory
                \* its TokenManager objects resolved
    sync        \* the execute_command_sync call in progress

vars == <<file, tokens, res, batch, lastSet, prevOp, boot, sync>>

----------------------------------------------------------------------------
(* Values *)

NONE == "<None>"
ABSENT == "<absent>"

\* the largest server_ids list a call carries
MaxTargets == 2

Chars(s) ==
    CASE s = "" -> <<>>
    [] s = "demo" -> <<"d", "e", "m", "o">>
    [] s = "alpamon" -> <<"a", "l", "p", "a", "m", "o", "n">>
    [] s = "bad workspace!" -> <<"b", "a", "d", " ", "w", "o", "r", "k", "s", "p", "a", "c", "e", "!">>
    [] s = "ap1" -> <<"a", "p", "1">>
    [] s = "us1" -> <<"u", "s", "1">>
    [] s = "eu1" -> <<"e", "u", "1">>
    [] s = "dev" -> <<"d", "e", "v">>
    [] s = "zzz" -> <<"z", "z", "z">>
    [] s = "550e8400-e29b-41d4-a716-446655440000" -> <<"5", "5", "0", "e", "8", "4", "0", "0", "-", "e", "2", "9", "b", "-", "4", "1", "d", "4", "-", "a", "7", "1", "6", "-", "4", "4", "6", "6", "5", "5", "4", "4", "0", "0", "0", "0">>
    [] s = "660e8400-e29b-41d4-a716-446655440001" -> <<"6", "6", "0", "e", "8", "4", "0", "0", "-", "e", "2", "9", "b", "-", "4", "1", "d", "4", "-", "a", "7", "1", "6", "-", "4", "4", "6", "6", "5", "5", "4", "4", "0", "0", "0", "1">>
    [] s = "not-a-uuid" -> <<"n", "o", "t", "-", "a", "-", "u", "u", "i", "d">>
    [] s = "also-bad" -> <<"a", "l", "s", "o", "-", "b", "a", "d">>
    [] s = "/tmp/safe.txt" -> <<"/", "t", "m", "p", "/", "s", "a", "f", "e", ".", "t", "x", "t">>
    [] s = "relative/path.txt" -> <<"r", "e", "l", "a", "t", "i", "v", "e", "/", "p", "a", "t", "h", ".", "t", "x", "t">>
    [] s = "/home/../etc/passwd" -> <<"/", "h", "o", "m", "e", "/", ".", ".", "/", "e", "t", "c", "/", "p", "a", "s", "s", "w", "d">>
    [] s = "/tmp/file<NUL>.txt" -> <<"/", "t", "m", "p", "/", "f", "i", "l", "e", "NUL", ".", "t", "x", "t">>

Uuid1 == "550e8400-e29b-41d4-a716-446655440000"
Uuid2 == "660e8400-e29b-41d4-a716-446655440001"

IsStr(v) == v # NONE /\ v # ABSENT

\* Python truthiness of an optional string: None and "" are falsy
Truthy(v) == IsStr(v) /\ v # ""

Digits == {"0", "1", "2", "3", "4", "5", "6", "7", "8", "9"}
HexLetters == {"a", "b", "c", "d", "e", "f"}
LowerLetters ==
    {"a", "b", "c", "d", "e", "f", "g", "h", "i", "j", "k", "l", "m",
     "n", "o", "p", "q", "r", "s", "t", "u", "v", "w", "x", "y", "z"}

----------------------------------------------------------------------------
(* InputValidator: utils/error_handler.py *)

ValidRegions == {"ap1", "us1", "eu1", "dev"}

validate_region_format(region) ==
    IsStr(region) /\ region \in ValidRegions

validate_workspace_format(workspace) ==
    /\ IsStr(workspace)
    /\ Len(Chars(workspace)) > 0
    /\ \A i \in 1..Len(Chars(workspace)) :
          Chars(workspace)[i] \in LowerLetters \cup Digits \cup {"-"}

validate_server_id_format(sid) ==
    /\ IsStr(sid)
    /\ Len(Chars(sid)) = 36
    /\ \A i \in 1..Len(Chars(sid)) :
          IF i \in {9, 14, 19, 24}
          THEN Chars(sid)[i] = "-"
          ELSE Chars(sid)[i] \in Digits \cup HexLetters

----------------------------------------------------------------------------
(* ResponseNormalizer: utils/common.py, utils/error_handler.py *)

Status(env) == IF "status" \in DOMAIN env THEN env.status ELSE "<no status>"
Field(env) == IF "field" \in DOMAIN env THEN env.field ELSE "<no field>"
HasMessage(env) == "message" \in DOMAIN env

error_response(message, extra) ==
    [status |-> "error", message |-> message] @@ extra

success_response(data, extra) ==
    [status |-> "success", data |-> data] @@ extra

format_validation_error(field, value) ==
    [status |-> "error",
     message |-> <<"Invalid ", field, " format">>,
     field |-> field,
     value |-> value]

token_error_response(region, workspace) ==
    [status |-> "error",
     message |-> <<"No token found for ", workspace, ".", region,
                   ". Please set token first.">>,
     region |-> region,
     workspace |-> workspace]

\* the 401 rendering of format_user_friendly_error and its other renderings
format_user_friendly_error(code, context) ==
    [status |-> "error",
     message |-> <<"Request failed: ", code>>,
     error_code |-> code] @@ context

----------------------------------------------------------------------------
(* CredentialStore: utils/token_manager.py *)

TokenValues == {"t1", "t2"}

\* the keys a set or remove is issued for
StoreKeys == {<<"ap1", "demo">>, <<"ap1", "alpamon">>, <<"us1", "demo">>}

EmptyMap == <<>>
NoCred == <<>>

Cred(token, workspace, region) ==
    [token |-> token, workspace |-> workspace, region |-> region]

\* json.dump of the whole mapping: the region keys, and one entry per
\* (region, workspace) holding the three fields of the credential
Dump(toks) ==
    [regions |-> DOMAIN toks,
     entries |-> UNION {{<<r, w, toks[r][w].token, toks[r][w].workspace,
                           toks[r][w].region>> : w \in DOMAIN toks[r]} :
                        r \in DOMAIN toks}]

\* json.load of a blob written by Dump
Parse(blob) ==
    [r \in blob.regions |->
        [w \in {e[2] : e \in {x \in blob.entries : x[1] = r}} |->
            LET e == CHOOSE x \in blob.entries : x[1] = r /\ x[2] = w
            IN  [token |-> e[3], workspace |-> e[4], region |-> e[5]]]]

MissingFile == [state |-> "missing", data |-> Dump(EmptyMap)]
\* a file that is no JSON document
CorruptFile == [state |-> "corrupt", data |-> Dump(EmptyMap)]
\* a file whose bytes are no text in the locale's encoding: reading it
\* raises UnicodeDecodeError, a ValueError that is neither JSONDecodeError
\* nor IOError
UndecodableFile == [state |-> "undecodable", data |-> Dump(EmptyMap)]
OkFile(toks) == [state |-> "ok", data |-> Dump(toks)]

\* a faulty save: only the entries of one region are written
save_one_region_only(toks) ==
    IF DOMAIN toks = {}
    THEN OkFile(toks)
    ELSE OkFile([r \in {CHOOSE x \in DOMAIN toks : TRUE} |-> toks[r]])

\* TokenManager._save_tokens_to_file: a full rewrite of the file
SaveTokensToFile(toks) == OkFile(toks)

\* TokenManager._load_tokens with automatic directory detection
\* (config_dirs holds both directories): the primary file when it parses,
\* else the other directory's file, copied to the primary when non-empty
LoadTokens(primary, other) ==
    IF primary.state = "ok"
    THEN [tokens |-> Parse(primary.data), primary |-> primary, error |-> ""]
    ELSE IF primary.state = "undecodable"
    THEN [tokens |-> EmptyMap, primary |-> primary,
          error |-> "UnicodeDecodeError"]
    ELSE IF other.state = "ok"
    THEN [tokens |-> Parse(other.data),
          primary |-> IF Parse(other.data) # EmptyMap
                      THEN SaveTokensToFile(Parse(other.data))
                      ELSE primary,
          error |-> ""]
    ELSE IF other.state = "undecodable"
    THEN [tokens |-> EmptyMap, primary |-> primary,
          error |-> "UnicodeDecodeError"]
    ELSE [tokens |-> EmptyMap, primary |-> primary, error |-> ""]

\* TokenManager.__init__: the directory of the token file
ResolveConfigDir(config_dir, devExists, devMode) ==
    IF config_dir # NONE
    THEN config_dir
    ELSE IF devExists \/ devMode THEN ".config" ELSE "config"

\* TokenManager.get_all_tokens
GetAllTokens(toks) == toks

\* TokenManager.get_auth_status
GetAuthStatus(toks, dir) ==
    LET total == Cardinality(UNION {{<<r, w>> : w \in DOMAIN toks[r]} :
                                     r \in DOMAIN toks})
    IN  [authenticated |-> total > 0,
         total_tokens |-> total,
         regions |-> {[region |-> r, workspaces |-> DOMAIN toks[r],
                       count |-> Cardinality(DOMAIN toks[r])] :
                      r \in DOMAIN toks},
         config_dir |-> dir,
         is_dev_mode |-> dir = ".config"]

\* TokenManager.get_token
GetToken(toks, region, workspace) ==
    IF region \in DOMAIN toks /\ workspace \in DOMAIN toks[region]
    THEN toks[region][workspace]
    ELSE NoCred

\* a faulty set_token: the region's bucket is replaced, not updated
set_token_fresh_bucket(toks, region, workspace, token) ==
    [tokens |-> [r \in DOMAIN toks \cup {region} |->
                    IF r = region
                    THEN [w \in {workspace} |-> Cred(token, workspace, region)]
                    ELSE toks[r]],
     saved |-> TRUE,
     result |-> [status |-> "success",
                 message |-> <<"Token saved for ", workspace, ".", region>>,
                 region |-> region,
                 workspace |-> workspace]]

\* TokenManager.set_token: the new mapping and the returned dict
SetToken(toks, region, workspace, token) ==
    LET bucket == IF region \in DOMAIN toks THEN toks[region] ELSE EmptyMap
        newBucket == [w \in DOMAIN bucket \cup {workspace} |->
                        IF w = workspace
                        THEN Cred(token, workspace, region)
                        ELSE bucket[w]]
    IN  [tokens |-> [r \in DOMAIN toks \cup {region} |->
                        IF r = region THEN newBucket ELSE toks[r]],
         saved |-> TRUE,
         result |-> [status |-> "success",
                     message |-> <<"Token saved for ", workspace, ".", region>>,
                     region |-> region,
                     workspace |-> workspace]]

\* a faulty remove_token: "nothing to delete" is reported like "deleted",
\* and the file is rewritten
remove_token_always_succeeds(toks, region, workspace) ==
    LET kept == [r \in {x \in DOMAIN toks :
                          x # region \/ DOMAIN toks[x] # {workspace}} |->
                    IF r = region
                    THEN [w \in DOMAIN toks[r] \ {workspace} |-> toks[r][w]]
                    ELSE toks[r]]
    IN  [tokens |-> kept,
         saved |-> TRUE,
         result |-> [status |-> "success",
                     message |-> <<"Token removed for ", workspace, ".",
                                   region>>]]

\* TokenManager.remove_token: the new mapping, whether the file is
\* rewritten, and the returned dict
RemoveToken(toks, region, workspace) ==
    IF region \in DOMAIN toks /\ workspace \in DOMAIN toks[region]
    THEN LET bucket == [w \in DOMAIN toks[region] \ {workspace} |->
                            toks[region][w]]
             kept == IF bucket = EmptyMap
                     THEN [r \in DOMAIN toks \ {region} |-> toks[r]]
                     ELSE [r \in DOMAIN toks |->
                            IF r = region THEN bucket ELSE toks[r]]
         IN  [tokens |-> kept,
              saved |-> TRUE,
              result |-> [status |-> "success",
                          message |-> <<"Token removed for ", workspace, ".",
                                        region>>]]
    ELSE [tokens |-> toks,
          saved |-> FALSE,
          result |-> [status |-> "error",
                      message |-> <<"No token found for ", workspace, ".",
                                    region>>]]

----------------------------------------------------------------------------
(* RemoteClient: utils/http_client.py *)

\* how one remote request ends: a parsed body, a typed error value
\* (network, timeout, non-2xx status), or an exception
RemoteOutcomes == {"ok", "network", "timeout", "status", "raise"}
TypedErrors == {"network", "timeout", "status"}

RemoteCause == "HTTP 500 Internal Server Error"

\* the value http_client.get / http_client.post returns for an outcome
\* that does not raise
RemoteValue(o) ==
    CASE o = "ok" -> [count |-> "1"]
    [] o = "network" -> [error |-> "Request Error", message |-> "connect failed"]
    [] o = "timeout" -> [error |-> "Timeout", message |-> "Request timed out"]
    [] o = "status" -> [error |-> "HTTP Error", status_code |-> "500",
                        message |-> "Internal Server Error"]

IsTypedError(value) == "error" \in DOMAIN value

----------------------------------------------------------------------------
(* Tool signatures and argument binding (inspect.signature) *)

IdsAbsent == [kind |-> "absent", items |-> <<>>]
IdsNone == [kind |-> "none", items |-> <<>>]
IdsInt == [kind |-> "int", items |-> <<>>]
IdsList(items) == [kind |-> "list", items |-> items]

Supplied(args) ==
    {n \in {"workspace", "region", "server_id"} : args[n] # ABSENT}
    \cup (IF args.server_ids.kind # "absent" THEN {"server_ids"} ELSE {})

\* the tools wrapped by mcp_tool_handler, and the handler the pipeline's
\* own tests wrap with with_token_validation alone
Signature(tool) ==
    CASE tool = "list_events" ->
            [params |-> {"workspace", "server_id", "region"},
             required |-> {"workspace"}, kwargs |-> TRUE,
             logged |-> TRUE, remote |-> TRUE]
    [] tool = "get_cpu_usage" ->
            [params |-> {"workspace", "server_id", "region"},
             required |-> {"workspace", "server_id"}, kwargs |-> TRUE,
             logged |-> TRUE, remote |-> TRUE]
    [] tool = "list_workspaces" ->
            [params |-> {"region"},
             required |-> {}, kwargs |-> FALSE,
             logged |-> TRUE, remote |-> FALSE]
    [] tool = "_inner" ->
            [params |-> {"workspace", "region", "server_id", "server_ids"},
             required |-> {"workspace"}, kwargs |-> TRUE,
             logged |-> FALSE, remote |-> FALSE]

PipelineTools == {"list_events", "get_cpu_usage", "list_workspaces", "_inner"}

\* Signature.bind: every required parameter is given, and a keyword the
\* signature does not name needs **kwargs
BindOK(sig, args, extra) ==
    /\ sig.required \subseteq Supplied(args)
    /\ sig.kwargs \/ (Supplied(args) \cup extra) \subseteq sig.params

\* Signature.bind_partial: missing parameters are allowed
BindPartialOK(sig, args, extra) ==
    sig.kwargs \/ (Supplied(args) \cup extra) \subseteq sig.params

\* the token keywords the caller put in the call
CallerKwargs(args) ==
    [n \in {k \in {"token", "_token"} \cap DOMAIN args : args[k] # ABSENT}
        |-> args[n]]

\* kwargs.pop('_token', None)
PopToken(kw) == [n \in DOMAIN kw \ {"_token"} |-> kw[n]]

\* a faulty injection: a token keyword of the caller is kept
caller_token_kept(kw, token) == kw @@ [n \in {"token"} |-> token]

\* kwargs['token'] = token
InjectToken(kw, token) == [n \in {"token"} |-> token] @@ kw

\* bound_args.arguments.get(name, dflt) after apply_defaults(): a keyword
\* taken by **kwargs is not an entry of arguments
Argument(sig, args, name, paramDefault, dflt) ==
    IF name \in sig.params
    THEN IF name \in Supplied(args)
         THEN args[name]
         ELSE IF name \in sig.required THEN dflt ELSE paramDefault
    ELSE dflt

ArgumentIds(sig, args) ==
    IF "server_ids" \in sig.params /\ args.server_ids.kind # "absent"
    THEN args.server_ids
    ELSE IdsNone

----------------------------------------------------------------------------
(* DispatchPipeline: utils/decorators.py *)

\* what one tool call did: how it ended ("envelope", "raised", or "raw"
\* for a returned value that is no envelope), the returned dict, the
\* exception that left the function, the pipeline checks that ran, whether
\* a credential store was read, whether the wrapped handler ran, the
\* remote requests issued, and the log lines written
Trace(outcome, env, exc, evaluated, consulted, invoked, remote, log) ==
    [outcome |-> outcome, env |-> env, exc |-> exc, evaluated |-> evaluated,
     consulted |-> consulted, invoked |-> invoked, remote |-> remote,
     log |-> log]

NoEnv == <<>>

\* utils.common.validate_token: the token string of the stored credential,
\* None when there is none
validate_token(toks, region, workspace) ==
    IF GetToken(toks, region, workspace) = NoCred
    THEN NONE
    ELSE GetToken(toks, region, workspace).token

\* list_workspaces' body: the workspaces stored under the region
WorkspaceListing(toks, region) ==
    IF region \in DOMAIN toks
    THEN {[workspace |-> w, region |-> region,
           has_token |-> toks[region][w].token # ""] : w \in DOMAIN toks[region]}
    ELSE {}

\* the body of a wrapped handler: the envelope it returns or the exception
\* it raises, and the remote requests it issued
Handler(tool, region, workspace, server_id, token, toks, o) ==
    CASE tool \in {"list_events", "get_cpu_usage"} ->
            IF o = "raise"
            THEN [raised |-> TRUE, cause |-> RemoteCause, env |-> NoEnv,
                  remote |-> 1]
            ELSE [raised |-> FALSE, cause |-> "",
                  env |-> success_response(RemoteValue(o),
                            [server_id |-> server_id, region |-> region,
                             workspace |-> workspace]),
                  remote |-> 1]
    [] tool = "list_workspaces" ->
            [raised |-> FALSE, cause |-> "",
             env |-> success_response(
                        [workspaces |-> WorkspaceListing(toks, region),
                         region |-> region],
                        [region |-> region]),
             remote |-> 0]
    [] tool = "_inner" ->
            [raised |-> FALSE, cause |-> "",
             env |-> [status |-> "success", token |-> token],
             remote |-> 0]

\* a faulty with_error_handling: the error dict names neither the operation
\* nor the call's workspace and region
error_handling_without_context(tool, args, region, workspace, server_id, token, toks, o, evaluated) ==
    LET h == Handler(tool, region, workspace, server_id, token, toks, o)
    IN  IF h.raised
        THEN Trace("envelope", error_response(<<"Failed: ", h.cause>>, <<>>),
                   "", evaluated, TRUE, TRUE, h.remote, <<>>)
        ELSE Trace("envelope", h.env, "", evaluated, TRUE, TRUE, h.remote, <<>>)

\* with_error_handling around the handler, entered with the resolved token
\* in kwargs.  A handler that cannot take the token keyword raises
\* TypeError when called, and sig.bind in the except block raises it again.
with_error_handling(tool, args, region, workspace, server_id, token, toks, o, evaluated) ==
    LET sig == Signature(tool)
        h == Handler(tool, region, workspace, server_id, token, toks, o)
    IN  IF ~BindOK(sig, args, {"token"})
        THEN Trace("raised", NoEnv, "TypeError", evaluated, TRUE, FALSE, 0, <<>>)
        ELSE IF h.raised
        THEN Trace("envelope",
                   error_response(<<"Failed in ", tool, ": ", h.cause>>,
                       [workspace |-> Argument(sig, args, "workspace", NONE, "unknown"),
                        region |-> Argument(sig, args, "region", "ap1", "unknown")]),
                   "", evaluated, TRUE, TRUE, h.remote,
                   <<<<"error", tool, h.cause>>>>)
        ELSE Trace("envelope", h.env, "", evaluated, TRUE, TRUE, h.remote, <<>>)

\* faulty variants of the wrapper's checks: with idFirst the server_id
\* check runs before the workspace checks, with eager the token is resolved
\* on entry, before any check, with firstOnly the server_ids check reports
\* the first invalid element alone, with noneChecked a server_id of None is
\* validated like a supplied one
faulty_validation(tool, args, toks, o, idFirst, eager, firstOnly, noneChecked) ==
    LET sig == Signature(tool)
        region == Argument(sig, args, "region", "ap1", "ap1")
        workspace == Argument(sig, args, "workspace", NONE, NONE)
        server_id == Argument(sig, args, "server_id", NONE, NONE)
        server_ids == ArgumentIds(sig, args)
        invalid_ids == SelectSeq(server_ids.items,
                                 LAMBDA sid : ~validate_server_id_format(sid))
        token == validate_token(toks, region, workspace)
        badId == /\ noneChecked \/ server_id # NONE
                 /\ ~validate_server_id_format(server_id)
        all == <<"region", "workspace_required", "workspace", "server_id",
                 "server_ids", "credential">>
        Rejected(env, evaluated) ==
            Trace("envelope", env, "", evaluated, eager, FALSE, 0, <<>>)
        kwargs == PopToken(CallerKwargs(args))
        handed == InjectToken(kwargs, token).token
    IN  IF ~BindPartialOK(sig, args, DOMAIN kwargs)
        THEN Trace("raised", NoEnv, "TypeError", <<>>, FALSE, FALSE, 0, <<>>)
        ELSE IF ~validate_region_format(region)
        THEN Rejected(format_validation_error("region", region), <<"region">>)
        ELSE IF idFirst /\ badId
        THEN Rejected(format_validation_error("server_id", server_id),
                      <<"region", "server_id">>)
        ELSE IF ~Truthy(workspace)
        THEN Rejected(error_response(<<"workspace parameter is required">>, <<>>),
                      <<"region", "workspace_required">>)
        ELSE IF ~validate_workspace_format(workspace)
        THEN Rejected(format_validation_error("workspace", workspace),
                      <<"region", "workspace_required", "workspace">>)
        ELSE IF badId
        THEN Rejected(format_validation_error("server_id", server_id),
                      SubSeq(all, 1, 4))
        ELSE IF server_ids.kind = "int"
        THEN Trace("raised", NoEnv, "TypeError", SubSeq(all, 1, 5), eager,
                   FALSE, 0, <<>>)
        ELSE IF server_ids.kind = "list" /\ invalid_ids # <<>>
        THEN Rejected(format_validation_error("server_ids",
                          IF firstOnly THEN <<Head(invalid_ids)>>
                          ELSE invalid_ids),
                      SubSeq(all, 1, 5))
        ELSE IF ~Truthy(token)
        THEN Trace("envelope", token_error_response(region, workspace), "",
                   all, TRUE, FALSE, 0, <<>>)
        ELSE IF sig.logged
        THEN with_error_handling(tool, args, region, workspace, server_id,
                                 handed, toks, o, all)
        ELSE Trace("envelope",
                   Handler(tool, region, workspace, server_id, handed, toks, o).env,
                   "", all, TRUE, TRUE, 0, <<>>)

server_id_checked_first(tool, args, toks, o) ==
    faulty_validation(tool, args, toks, o, TRUE, FALSE, FALSE, FALSE)

token_resolved_on_entry(tool, args, toks, o) ==
    faulty_validation(tool, args, toks, o, FALSE, TRUE, FALSE, FALSE)

first_invalid_id_only(tool, args, toks, o) ==
    faulty_validation(tool, args, toks, o, FALSE, FALSE, TRUE, FALSE)

none_server_id_validated(tool, args, toks, o) ==
    faulty_validation(tool, args, toks, o, FALSE, FALSE, FALSE, TRUE)

\* with_token_validation: the checks in the order of the wrapper's body
with_token_validation(tool, args, toks, o) ==
    LET sig == Signature(tool)
        region == Argument(sig, args, "region", "ap1", "ap1")
        workspace == Argument(sig, args, "workspace", NONE, NONE)
        server_id == Argument(sig, args, "server_id", NONE, NONE)
        server_ids == ArgumentIds(sig, args)
        invalid_ids == SelectSeq(server_ids.items,
                                 LAMBDA sid : ~validate_server_id_format(sid))
        token == validate_token(toks, region, workspace)
        Rejected(env, evaluated) ==
            Trace("envelope", env, "", evaluated, FALSE, FALSE, 0, <<>>)
        kwargs == PopToken(CallerKwargs(args))
        handed == InjectToken(kwargs, token).token
    IN  IF ~BindPartialOK(sig, args, DOMAIN kwargs)
        THEN Trace("raised", NoEnv, "TypeError", <<>>, FALSE, FALSE, 0, <<>>)
        ELSE IF ~validate_region_format(region)
        THEN Rejected(format_validation_error("region", region), <<"region">>)
        ELSE IF ~Truthy(workspace)
        THEN Rejected(error_response(<<"workspace parameter is required">>, <<>>),
                      <<"region", "workspace_required">>)
        ELSE IF ~validate_workspace_format(workspace)
        THEN Rejected(format_validation_error("workspace", workspace),
                      <<"region", "workspace_required", "workspace">>)
        ELSE IF server_id # NONE /\ ~validate_server_id_format(server_id)
        THEN Rejected(format_validation_error("server_id", server_id),
                      <<"region", "workspace_required", "workspace", "server_id">>)
        ELSE IF server_ids.kind = "int"
        THEN Trace("raised", NoEnv, "TypeError",
                   <<"region", "workspace_required", "workspace", "server_id",
                     "server_ids">>, FALSE, FALSE, 0, <<>>)
        ELSE IF server_ids.kind = "list" /\ invalid_ids # <<>>
        THEN Rejected(format_validation_error("server_ids", invalid_ids),
                      <<"region", "workspace_required", "workspace", "server_id",
                        "server_ids">>)
        ELSE IF ~Truthy(token)
        THEN Trace("envelope", token_error_response(region, workspace), "",
                   <<"region", "workspace_required", "workspace", "server_id",
                     "server_ids", "credential">>, TRUE, FALSE, 0, <<>>)
        ELSE IF sig.logged
        THEN with_error_handling(tool, args, region, workspace, server_id,
                   handed, toks, o,
                   <<"region", "workspace_required", "workspace", "server_id",
                     "server_ids", "credential">>)
        ELSE Trace("envelope",
                   Handler(tool, region, workspace, server_id, handed, toks, o).env,
                   "",
                   <<"region", "workspace_required", "workspace", "server_id",
                     "server_ids", "credential">>, TRUE, TRUE, 0, <<>>)

\* with_logging: binds the arguments, logs the entry, calls the inner
\* wrapper and logs a successful completion
with_logging(tool, args, toks, o) ==
    LET sig == Signature(tool)
        inner == with_token_validation(tool, args, toks, o)
    IN  IF ~BindOK(sig, args, DOMAIN CallerKwargs(args))
        THEN Trace("raised", NoEnv, "TypeError", <<>>, FALSE, FALSE, 0, <<>>)
        ELSE [inner EXCEPT !.log =
                <<<<"called", tool>>>> \o @ \o
                (IF inner.outcome = "envelope" /\ Status(inner.env) = "success"
                 THEN <<<<"completed", tool>>>>
                 ELSE <<>>)]

\* mcp_tool_handler: with_logging(with_token_validation(with_error_handling(f)));
\* the handler of the pipeline's tests is wrapped by with_token_validation alone
mcp_tool_handler(tool, args, toks, o) ==
    IF Signature(tool).logged
    THEN with_logging(tool, args, toks, o)
    ELSE with_token_validation(tool, args, toks, o)

----------------------------------------------------------------------------
(* Tools that do not run behind the pipeline: tools/server_tools.py,       *)
(* tools/command_tools.py, tools/auth_tools.py                             *)

\* list_servers: validates inline, workspace first, and maps a typed
\* remote error to a user-friendly error envelope
list_servers(args, toks, o) ==
    LET workspace == args.workspace
        region == IF args.region = ABSENT THEN "ap1" ELSE args.region
        context == [workspace |-> workspace, region |-> region]
        value == RemoteValue(o)
    IN  IF workspace = ABSENT
        THEN Trace("raised", NoEnv, "TypeError", <<>>, FALSE, FALSE, 0, <<>>)
        ELSE IF ~validate_workspace_format(workspace)
        THEN Trace("envelope", format_validation_error("workspace", workspace),
                   "", <<"workspace">>, FALSE, FALSE, 0, <<>>)
        ELSE IF ~validate_region_format(region)
        THEN Trace("envelope", format_validation_error("region", region),
                   "", <<"workspace", "region">>, FALSE, FALSE, 0, <<>>)
        ELSE IF GetToken(toks, region, workspace) = NoCred
        THEN Trace("envelope", format_user_friendly_error("401", context),
                   "", <<"workspace", "region", "credential">>, TRUE, FALSE, 0,
                   <<<<"error", "list_servers", "no token">>>>)
        ELSE IF o = "raise"
        THEN Trace("envelope",
                   [status |-> "error",
                    message |-> <<"Failed to get servers list: ", RemoteCause>>],
                   "", <<"workspace", "region", "credential">>, TRUE, TRUE, 1,
                   <<<<"error", "list_servers", RemoteCause>>>>)
        ELSE IF IsTypedError(value)
        THEN Trace("envelope",
                   format_user_friendly_error(
                       IF "status_code" \in DOMAIN value THEN value.status_code
                       ELSE IF value.error = "Timeout" THEN "timeout"
                       ELSE IF value.error = "Request Error" THEN "network"
                       ELSE "500",
                       context),
                   "", <<"workspace", "region", "credential">>, TRUE, TRUE, 1,
                   <<<<"error", "list_servers", value.error>>>>)
        ELSE Trace("envelope",
                   [status |-> "success", data |-> value, region |-> region,
                    workspace |-> workspace],
                   "", <<"workspace", "region", "credential">>, TRUE, TRUE, 1, <<>>)

\* the tools whose body is try: get_token, one remote request, a success
\* dict; except Exception: an error dict
TryTools == {"get_server", "list_server_notes", "execute_command"}

FailurePrefix(tool) ==
    CASE tool = "get_server" -> "Failed to get server details: "
    [] tool = "list_server_notes" -> "Failed to get server notes: "
    [] tool = "execute_command" -> "Failed to execute command: "

\* the rest of such a body once the remote request has ended with o
AfterRemote(tool, server_id, region, workspace, o) ==
    IF o = "raise"
    THEN [status |-> "error",
          message |-> <<FailurePrefix(tool), RemoteCause>>]
    ELSE IF tool = "get_server" /\ IsTypedError(RemoteValue(o))
    THEN [status |-> "error", message |-> <<RemoteValue(o).message>>,
          server_id |-> server_id, region |-> region, workspace |-> workspace]
    ELSE [status |-> "success", data |-> RemoteValue(o),
          server_id |-> server_id, region |-> region, workspace |-> workspace]

NoTokenFound(region, workspace) ==
    [status |-> "error",
     message |-> <<"No token found for ", workspace, ".", region,
                   ". Please set token first.">>]

TryTool(tool, args, toks, o) ==
    LET workspace == args.workspace
        region == IF args.region = ABSENT THEN "ap1" ELSE args.region
        server_id == args.server_id
    IN  IF workspace = ABSENT \/ server_id = ABSENT
        THEN Trace("raised", NoEnv, "TypeError", <<>>, FALSE, FALSE, 0, <<>>)
        ELSE IF GetToken(toks, region, workspace) = NoCred
        THEN Trace("envelope", NoTokenFound(region, workspace),
                   "", <<"credential">>, TRUE, FALSE, 0, <<>>)
        ELSE Trace("envelope",
                   AfterRemote(tool, server_id, region, workspace, o),
                   "", <<"credential">>, TRUE, TRUE, 1, <<>>)

\* websh_session_create: reads websh_tools' own TokenManager, posts the
\* session and wraps what the request returns
websh_session_create(args, toks, o) ==
    LET workspace == IF args.workspace = ABSENT THEN "alpamon" ELSE args.workspace
        region == IF args.region = ABSENT THEN "ap1" ELSE args.region
        server_id == args.server_id
        token_info == GetToken(toks, region, workspace)
    IN  IF server_id = ABSENT
        THEN Trace("raised", NoEnv, "TypeError", <<>>, FALSE, FALSE, 0, <<>>)
        ELSE IF token_info = NoCred
        THEN Trace("envelope", NoTokenFound(region, workspace),
                   "", <<"credential">>, TRUE, FALSE, 0, <<>>)
        ELSE IF ~Truthy(token_info.token)
        THEN Trace("envelope",
                   [status |-> "error",
                    message |-> <<"Invalid token data for ", workspace, ".",
                                  region>>],
                   "", <<"credential">>, TRUE, FALSE, 0, <<>>)
        ELSE IF o = "raise"
        THEN Trace("envelope",
                   [status |-> "error",
                    message |-> <<"Failed to create WebSH session: ",
                                  RemoteCause>>],
                   "", <<"credential">>, TRUE, TRUE, 1, <<>>)
        ELSE Trace("envelope",
                   [status |-> "success", data |-> RemoteValue(o),
                    server_id |-> server_id, region |-> region,
                    workspace |-> workspace],
                   "", <<"credential">>, TRUE, TRUE, 1, <<>>)

\* webftp_upload_file: takes session_id, file_path and file_data; any other
\* keyword is refused by the call itself.  The path is sent as given.
webftp_upload_file(args, toks, o) ==
    LET workspace == args.workspace
        region == IF args.region = ABSENT THEN "ap1" ELSE args.region
    IN  IF \/ args.local_file_path # ABSENT
           \/ args.remote_file_path # ABSENT
           \/ args.file_path = ABSENT
           \/ workspace = ABSENT
        THEN Trace("raised", NoEnv, "TypeError", <<>>, FALSE, FALSE, 0, <<>>)
        ELSE IF GetToken(toks, region, workspace) = NoCred
        THEN Trace("envelope", NoTokenFound(region, workspace),
                   "", <<"credential">>, TRUE, FALSE, 0, <<>>)
        ELSE IF o = "raise"
        THEN Trace("envelope",
                   [status |-> "error",
                    message |-> <<"Failed to upload file: ", RemoteCause>>],
                   "", <<"credential">>, TRUE, TRUE, 1, <<>>)
        ELSE Trace("envelope",
                   [status |-> "success", data |-> RemoteValue(o),
                    session_id |-> args.session_id,
                    file_path |-> args.file_path,
                    region |-> region, workspace |-> workspace],
                   "", <<"credential">>, TRUE, TRUE, 1, <<>>)

\* what utils.auth.get_token finds at its fixed path: no file, a file
\* without the entry, or a file with the entry
ConfigStates == {"missing", "no_entry", "entry"}

\* alpacon_login: reads the token with utils.auth.get_token, runs the
\* alpacon CLI login and returns the string "test"
alpacon_login(config) ==
    CASE config = "missing" ->
            Trace("raised", NoEnv, "FileNotFoundError", <<>>, FALSE, FALSE, 0, <<>>)
    [] config = "no_entry" ->
            Trace("raised", NoEnv, "KeyError", <<>>, FALSE, FALSE, 0, <<>>)
    [] config = "entry" ->
            Trace("raw", NoEnv, "", <<>>, FALSE, TRUE, 1, <<>>)

----------------------------------------------------------------------------
(* State *)

\* the module-level TokenManager objects: auth_tools.token_manager, the one
\* get_token_manager() hands to utils.common and the other tools, and
\* websh_tools.token_manager (websh_websocket has one more of the same kind)
Instances == {"auth", "shared", "websh"}

Args(workspace, region, server_id, server_ids) ==
    [workspace |-> workspace, region |-> region, server_id |-> server_id,
     server_ids |-> server_ids]

NoArgs == Args(ABSENT, ABSENT, ABSENT, IdsAbsent)

\* a returned call: the trace of the call with the tool, its arguments and
\* the remote outcome it met
Call(tool, args, o, trace) ==
    [tool |-> tool, args |-> args, o |-> o, subcalls |-> 0, targets |-> <<>>]
    @@ trace

NoCall ==
    Call("", NoArgs, "ok",
         Trace("none", NoEnv, "", <<>>, FALSE, FALSE, 0, <<>>))

\* no execute_command_sync call is waiting for its command
IdleSync ==
    [phase |-> "idle", args |-> NoArgs, o |-> "", timeout |-> 0,
     command_id |-> NONE, elapsed |-> 0, polls |-> 0, last |-> NONE,
     seen |-> {}]

IdleBatch ==
    [phase |-> "idle", ids |-> <<>>, parallel |-> TRUE, region |-> "",
     workspace |-> "", started |-> {}, inflight |-> {}, results |-> <<>>,
     outcomes |-> <<>>, credential |-> NoCred, used |-> <<>>,
     order |-> <<>>]

NoOp ==
    [tool |-> "", key |-> <<"", "">>, status |-> "", tokens |-> EmptyMap,
     file |-> MissingFile]

\* token files found at start-up; the last one was written by hand and
\* holds a region without workspaces
StoredAtStart ==
    {EmptyMap,
     [r \in {"ap1"} |-> [w \in {"demo"} |-> Cred("t1", "demo", "ap1")]],
     [r \in {"ap1", "us1"} |->
        IF r = "ap1"
        THEN [w \in {"demo", "alpamon"} |-> Cred("t2", w, "ap1")]
        ELSE [w \in {"demo"} |-> Cred("", "demo", "us1")]],
     [r \in {"ap1", "us1"} |->
        IF r = "ap1"
        THEN [w \in {"demo"} |-> Cred("t1", "demo", "ap1")]
        ELSE EmptyMap]}

InitPrimary == {MissingFile, CorruptFile} \cup {OkFile(m) : m \in StoredAtStart}
InitOther == {MissingFile, OkFile([r \in {"ap1"} |->
                            [w \in {"demo"} |-> Cred("t1", "demo", "ap1")]])}

\* the value of --config-file that main hands to server.run
OverrideFile == "/etc/alpacon/token.json"

\* the process starts: server.run has not run yet when the tool modules are
\* imported and their TokenManager() objects load, one after the other; the
\* first load may copy the other directory's file to the primary one, and
\* a load that raises ends the process
Started(devExists, devMode, configFile, devFile, prodFile) ==
    LET dir == ResolveConfigDir(NONE, devExists, devMode)
        primary == IF dir = ".config" THEN devFile ELSE prodFile
        other == IF dir = ".config" THEN prodFile ELSE devFile
        first == LoadTokens(primary, other)
        second == LoadTokens(first.primary, other)
        third == LoadTokens(second.primary, other)
        error == IF first.error # "" THEN first.error
                 ELSE IF second.error # "" THEN second.error
                 ELSE third.error
    IN  [file |-> third.primary,
         tokens |-> [i \in Instances |->
                        IF error # "" THEN EmptyMap
                        ELSE IF i = "auth" THEN first.tokens
                        ELSE IF i = "shared" THEN second.tokens
                        ELSE third.tokens],
         boot |-> [devExists |-> devExists, devMode |-> devMode,
                   configFile |-> configFile, dir |-> dir,
                   primary |-> primary, other |-> other, error |-> error]]

Boots(start) ==
    /\ file = start.file
    /\ tokens = start.tokens
    /\ boot = start.boot
    /\ res = NoCall
    /\ batch = IdleBatch
    /\ lastSet = [k \in StoreKeys |-> NONE]
    /\ prevOp = NoOp
    /\ sync = IdleSync

\* the server starts in a checkout that has the .config directory
Init ==
    \E primary \in InitPrimary, other \in InitOther :
        Boots(Started(TRUE, FALSE, NONE, primary, other))

----------------------------------------------------------------------------
(* Tool calls *)

RegionInputs == {"ap1", "zzz", ABSENT}
WorkspaceInputs == {"demo", "bad workspace!", "", ABSENT}
ServerIdInputs == {Uuid1, "not-a-uuid", NONE, ABSENT}
IdPool == {Uuid1, "not-a-uuid", "also-bad"}

SeqsUpTo(S, n) == UNION {[1..k -> S] : k \in 0..n}

IdsInputs ==
    {IdsAbsent, IdsNone, IdsInt} \cup {IdsList(l) : l \in SeqsUpTo(IdPool, MaxTargets)}

Idle == res.outcome = "none" /\ batch.phase = "idle" /\ sync.phase = "idle"

Unhistoried == UNCHANGED <<lastSet, prevOp, boot, sync>>

\* a call of a tool registered through mcp_tool_handler, or of the handler
\* the pipeline's tests decorate
PipelineCall ==
    /\ Idle
    /\ \E tool \in PipelineTools, region \in RegionInputs,
          workspace \in WorkspaceInputs, server_id \in ServerIdInputs,
          server_ids \in IdsInputs, o \in RemoteOutcomes :
        /\ "server_ids" \in Signature(tool).params \/ server_ids = IdsAbsent
        /\ "server_id" \in Signature(tool).params \/ server_id = ABSENT
        /\ Signature(tool).remote \/ o = "ok"
        /\ res' = Call(tool, Args(workspace, region, server_id, server_ids), o,
                       mcp_tool_handler(tool,
                           Args(workspace, region, server_id, server_ids),
                           tokens["shared"], o))
    /\ UNCHANGED <<file, tokens, batch>>
    /\ Unhistoried

ListServersCall ==
    /\ Idle
    /\ \E region \in RegionInputs, workspace \in WorkspaceInputs,
          o \in RemoteOutcomes :
        res' = Call("list_servers", Args(workspace, region, ABSENT, IdsAbsent), o,
                    list_servers(Args(workspace, region, ABSENT, IdsAbsent),
                                 tokens["shared"], o))
    /\ UNCHANGED <<file, tokens, batch>>
    /\ Unhistoried

TryToolCall ==
    /\ Idle
    /\ \E tool \in TryTools, region \in RegionInputs,
          workspace \in WorkspaceInputs, server_id \in ServerIdInputs \ {NONE},
          o \in RemoteOutcomes :
        res' = Call(tool, Args(workspace, region, server_id, IdsAbsent), o,
                    TryTool(tool, Args(workspace, region, server_id, IdsAbsent),
                            tokens["shared"], o))
    /\ UNCHANGED <<file, tokens, batch>>
    /\ Unhistoried

LoginCall ==
    /\ Idle
    /\ \E config \in ConfigStates :
        res' = Call("alpacon_login", Args("alpamon", "ap1", ABSENT, IdsAbsent),
                    config, alpacon_login(config))
    /\ UNCHANGED <<file, tokens, batch>>
    /\ Unhistoried

WebshCall ==
    /\ Idle
    /\ \E region \in {"ap1", "us1", ABSENT}, workspace \in {"demo", ABSENT},
          server_id \in {Uuid1, ABSENT}, o \in {"ok", "status", "raise"} :
        res' = Call("websh_session_create",
                    Args(workspace, region, server_id, IdsAbsent), o,
                    websh_session_create(
                        Args(workspace, region, server_id, IdsAbsent),
                        tokens["websh"], o))
    /\ UNCHANGED <<file, tokens, batch>>
    /\ Unhistoried

\* auth_set_token: token_manager.set_token of auth_tools' own TokenManager
TokenKeywordInputs == {ABSENT, "forged"}

KeywordArgs(workspace, region, token, underscored) ==
    [token |-> token, _token |-> underscored]
    @@ Args(workspace, region, ABSENT, IdsAbsent)

\* a call that carries a token or _token keyword of the caller's own
TokenKeywordCall ==
    /\ Idle
    /\ \E tool \in {"_inner", "list_events"}, region \in {"ap1", "us1"},
          token \in TokenKeywordInputs, underscored \in TokenKeywordInputs :
        LET args == KeywordArgs("demo", region, token, underscored)
        IN  /\ token # ABSENT \/ underscored # ABSENT
            /\ res' = Call(tool, args, "ok",
                           mcp_tool_handler(tool, args, tokens["shared"], "ok"))
    /\ UNCHANGED <<file, tokens, batch>>
    /\ Unhistoried

FilePathInputs == {ABSENT, "/tmp/safe.txt", "/home/../etc/passwd"}
LocalPathInputs == {ABSENT, "relative/path.txt", "/tmp/file<NUL>.txt"}
RemotePathInputs == {ABSENT, "/home/../etc/passwd"}

UploadArgs(workspace, region, file_path, local_file_path, remote_file_path) ==
    [session_id |-> "s1", file_path |-> file_path,
     local_file_path |-> local_file_path,
     remote_file_path |-> remote_file_path]
    @@ Args(workspace, region, ABSENT, IdsAbsent)

WebftpUploadCall ==
    /\ Idle
    /\ \E region \in {"ap1", "us1"}, file_path \in FilePathInputs,
          local_file_path \in LocalPathInputs,
          remote_file_path \in RemotePathInputs, o \in {"ok", "raise"} :
        LET args == UploadArgs("demo", region, file_path, local_file_path,
                               remote_file_path)
        IN  res' = Call("webftp_upload_file", args, o,
                        webftp_upload_file(args, tokens["shared"], o))
    /\ UNCHANGED <<file, tokens, batch>>
    /\ Unhistoried

AuthSetStep ==
    /\ \E k \in StoreKeys, t \in TokenValues :
        LET r == SetToken(tokens["auth"], k[1], k[2], t)
        IN  /\ tokens' = [tokens EXCEPT !["auth"] = r.tokens]
            /\ file' = SaveTokensToFile(r.tokens)
            /\ res' = Call("auth_set_token", Args(k[2], k[1], ABSENT, IdsAbsent),
                           "ok",
                           Trace("envelope", r.result, "", <<>>, TRUE, TRUE, 0, <<>>))
    /\ UNCHANGED batch
    /\ Unhistoried

\* auth_remove_token: token_manager.remove_token of the same object
AuthRemoveStep ==
    /\ \E k \in StoreKeys :
        LET r == RemoveToken(tokens["auth"], k[1], k[2])
        IN  /\ tokens' = [tokens EXCEPT !["auth"] = r.tokens]
            /\ file' = IF r.saved THEN SaveTokensToFile(r.tokens) ELSE file
            /\ res' = Call("auth_remove_token",
                           Args(k[2], k[1], ABSENT, IdsAbsent), "ok",
                           Trace("envelope", r.result, "", <<>>, TRUE, TRUE, 0, <<>>))
    /\ UNCHANGED batch
    /\ Unhistoried

AuthSetToken == Idle /\ AuthSetStep

AuthRemoveToken == Idle /\ AuthRemoveStep

\* the client takes the response; the next call may start
Respond ==
    /\ res.outcome # "none"
    /\ res' = NoCall
    /\ UNCHANGED <<file, tokens, batch>>
    /\ Unhistoried

----------------------------------------------------------------------------
(* MultiTargetDispatcher: execute_command_multi_server *)

TargetPool == {Uuid1, Uuid2}
BatchWorkspaces == {"demo", "alpamon"}
BatchOutcomes == {"ok", "timeout", "raise"}

BatchIdsInputs ==
    {IdsAbsent, IdsNone, IdsInt}
    \cup {IdsList(l) : l \in SeqsUpTo(TargetPool, MaxTargets)}

BatchArgs == Args(batch.workspace, batch.region, ABSENT, IdsList(batch.ids))

\* entry of execute_command_multi_server: the empty-list check and the
\* token check; a value that is no list fails in the loop over it and is
\* caught by the function's except clause
BatchStart ==
    /\ Idle
    /\ \E server_ids \in BatchIdsInputs, workspace \in BatchWorkspaces,
          parallel \in BOOLEAN :
        LET region == "ap1"
            args == Args(workspace, region, ABSENT, server_ids)
            Fails(trace) ==
                /\ res' = Call("execute_command_multi_server", args, "ok", trace)
                /\ batch' = batch
        IN  IF server_ids.kind = "absent"
            THEN Fails(Trace("raised", NoEnv, "TypeError", <<>>, FALSE, FALSE,
                             0, <<>>))
            ELSE IF server_ids.kind = "none"
                    \/ (server_ids.kind = "list" /\ server_ids.items = <<>>)
            THEN Fails(Trace("envelope",
                             [status |-> "error",
                              message |-> <<"server_ids cannot be empty">>],
                             "", <<"server_ids">>, FALSE, FALSE, 0, <<>>))
            ELSE IF GetToken(tokens["shared"], region, workspace) = NoCred
            THEN Fails(Trace("envelope", NoTokenFound(region, workspace), "",
                             <<"server_ids", "credential">>, TRUE, FALSE, 0, <<>>))
            ELSE IF server_ids.kind = "int"
            THEN Fails(Trace("envelope",
                             [status |-> "error",
                              message |-> <<"Deploy Shell execution failed: ",
                                            "'int' object is not iterable">>],
                             "", <<"server_ids", "credential">>, TRUE, FALSE,
                             0, <<>>))
            ELSE /\ batch' = [phase |-> "running", ids |-> server_ids.items,
                              parallel |-> parallel, region |-> region,
                              workspace |-> workspace, started |-> {},
                              inflight |-> {}, results |-> <<>>,
                              outcomes |-> <<>>,
                              credential |-> GetToken(tokens["shared"],
                                                      region, workspace),
                              used |-> <<>>, order |-> <<>>]
                 /\ res' = res
    /\ UNCHANGED <<file, tokens>>
    /\ Unhistoried

\* a faulty sequential loop: the next sub-call starts without the await
issue_without_waiting(b) == TRUE

\* gather starts every task; the sequential loop awaits a sub-call before
\* it starts the next
MayIssue(b) ==
    b.parallel \/ (b.inflight = {} /\ DOMAIN b.results = b.started)

\* the next execute_command sub-call runs up to its remote request: it
\* reads the token itself.  Sequential mode starts it when the one before
\* has returned.
BatchIssue ==
    /\ batch.phase = "running"
    /\ Cardinality(batch.started) < Len(batch.ids)
    /\ MayIssue(batch)
    /\ LET i == Cardinality(batch.started) + 1
       IN  IF GetToken(tokens["shared"], batch.region, batch.workspace) = NoCred
           THEN batch' = [batch EXCEPT
                    !.started = @ \cup {i},
                    !.results = (i :> NoTokenFound(batch.region, batch.workspace)) @@ @,
                    !.outcomes = (i :> "none") @@ @,
                    !.used = (i :> NoCred) @@ @,
                    !.order = Append(@, i)]
           ELSE batch' = [batch EXCEPT
                    !.started = @ \cup {i},
                    !.inflight = @ \cup {i},
                    !.used = (i :> GetToken(tokens["shared"], batch.region,
                                            batch.workspace)) @@ @]
    /\ UNCHANGED <<file, tokens, res>>
    /\ Unhistoried

\* a faulty gather: a sub-call that fails cancels the ones still in flight
failure_cancels_siblings(b, i, o) ==
    IF o = "ok"
    THEN [b EXCEPT
            !.inflight = @ \ {i},
            !.results = (i :> AfterRemote("execute_command", b.ids[i],
                                b.region, b.workspace, o)) @@ @,
            !.outcomes = (i :> o) @@ @,
            !.order = Append(@, i)]
    ELSE [b EXCEPT
            !.inflight = {},
            !.results = [j \in b.inflight |->
                            AfterRemote("execute_command", b.ids[j],
                                b.region, b.workspace, "raise")] @@ @,
            !.outcomes = [j \in b.inflight |->
                            IF j = i THEN o ELSE "cancelled"] @@ @,
            !.order = Append(@, i)]

\* the batch after sub-call i got the outcome o of its request
Settled(b, i, o) ==
    [b EXCEPT
        !.inflight = @ \ {i},
        !.results = (i :> AfterRemote("execute_command", b.ids[i],
                            b.region, b.workspace, o)) @@ @,
        !.outcomes = (i :> o) @@ @,
        !.order = Append(@, i)]

\* a remote request of the batch ends; in parallel mode every task has
\* reached its request before the event loop handles a completion
BatchSettle ==
    /\ batch.phase = "running"
    /\ batch.parallel => Cardinality(batch.started) = Len(batch.ids)
    /\ \E i \in batch.inflight, o \in BatchOutcomes :
        batch' = Settled(batch, i, o)
    /\ UNCHANGED <<file, tokens, res>>
    /\ Unhistoried

\* a faulty aggregation: the results are taken in the reverse of the list
\* order, as if keyed by something other than the target's position
results_keyed_in_reverse(ids, results) ==
    [sid \in {ids[i] : i \in 1..Len(ids)} |->
        results[Len(ids) + 1 -
                (CHOOSE i \in 1..Len(ids) :
                    /\ ids[i] = sid
                    /\ \A j \in 1..Len(ids) : ids[j] = sid => j <= i)]]

\* the per-target results keyed by server id (a later entry of the list
\* replaces an earlier one with the same id) and the two counters
DeployResults(ids, results) ==
    [sid \in {ids[i] : i \in 1..Len(ids)} |->
        results[CHOOSE i \in 1..Len(ids) :
                    /\ ids[i] = sid
                    /\ \A j \in 1..Len(ids) : ids[j] = sid => j <= i]]

\* a faulty aggregate: the batch reports an error when no target succeeded
batch_fails_when_all_fail(b) ==
    [status |-> IF \E i \in 1..Len(b.ids) : Status(b.results[i]) = "success"
                THEN "success" ELSE "error",
     deploy_shell_results |-> DeployResults(b.ids, b.results),
     total_servers |-> Len(b.ids),
     successful_count |->
        Cardinality({i \in 1..Len(b.ids) : Status(b.results[i]) = "success"}),
     failed_count |->
        Cardinality({i \in 1..Len(b.ids) : Status(b.results[i]) # "success"}),
     execution_type |-> IF b.parallel THEN "parallel" ELSE "sequential",
     region |-> b.region,
     workspace |-> b.workspace]

BatchEnvelope(b) ==
    [status |-> "success",
     deploy_shell_results |-> DeployResults(b.ids, b.results),
     total_servers |-> Len(b.ids),
     successful_count |->
        Cardinality({i \in 1..Len(b.ids) : Status(b.results[i]) = "success"}),
     failed_count |->
        Cardinality({i \in 1..Len(b.ids) : Status(b.results[i]) # "success"}),
     execution_type |-> IF b.parallel THEN "parallel" ELSE "sequential",
     region |-> b.region,
     workspace |-> b.workspace]

\* every sub-call has returned: the batch returns its aggregate
BatchFinish ==
    /\ batch.phase = "running"
    /\ res.outcome = "none"
    /\ Cardinality(batch.started) = Len(batch.ids)
    /\ batch.inflight = {}
    /\ res' = [Call("execute_command_multi_server", BatchArgs, "ok",
                    Trace("envelope", BatchEnvelope(batch), "",
                          <<"server_ids", "credential">>, TRUE, TRUE,
                          Cardinality({i \in 1..Len(batch.ids) :
                                            batch.outcomes[i] # "none"}),
                          <<>>))
               EXCEPT !.subcalls = Len(batch.ids),
                      !.targets = batch.outcomes]
              @@ [credential |-> batch.credential, used |-> batch.used,
                  order |-> batch.order, parallel |-> batch.parallel]
    /\ batch' = IdleBatch
    /\ UNCHANGED <<file, tokens>>
    /\ Unhistoried

----------------------------------------------------------------------------
(* The server: one tool call at a time, a multi-server batch in steps *)

Next ==
    \/ PipelineCall
    \/ ListServersCall
    \/ TryToolCall
    \/ LoginCall
    \/ WebshCall
    \/ WebftpUploadCall
    \/ TokenKeywordCall
    \/ AuthSetToken
    \/ AuthRemoveToken
    \/ BatchStart
    \/ BatchIssue
    \/ BatchSettle
    \/ BatchFinish
    \/ Respond

Spec == Init /\ [][Next]_vars

----------------------------------------------------------------------------
(* The batch with other tool calls in between: every await of the batch    *)
(* lets the event loop run another request, here the two auth tools.        *)

Interleaves == batch.phase = "running" /\ res.outcome = "none"

InterleavedSetToken == Interleaves /\ AuthSetStep

InterleavedRemoveToken == Interleaves /\ AuthRemoveStep

NextBatch ==
    \/ BatchStart
    \/ BatchIssue
    \/ BatchSettle
    \/ BatchFinish
    \/ InterleavedSetToken
    \/ InterleavedRemoveToken
    \/ Respond

SpecBatch == Init /\ [][NextBatch]_vars

----------------------------------------------------------------------------
(* execute_command_sync: issue the command, then poll its result once a   *)
(* second until it reports completion or the timeout has elapsed.  Time is *)
(* counted in seconds since start_time.                                    *)

MaxTimeout == 3         \* the largest timeout argument explored
MaxPollDelay == 1       \* the longest a get_command_result request takes

CommandId == "cmd-1"
FinishedAt == "2024-01-01T00:00:00Z"

\* str() of an int, as the f-string of the timeout message formats it
DecimalDigits == <<"0", "1", "2", "3", "4", "5", "6", "7", "8", "9">>

RECURSIVE Str(_)
Str(n) ==
    IF n < 0 THEN "-" \o Str(0 - n)
    ELSE IF n < 10 THEN DecimalDigits[n + 1]
    ELSE Str(n \div 10) \o DecimalDigits[(n % 10) + 1]

\* what the request of execute_command returns: the command object, a list
\* holding it, an empty list, or a typed error value; or it raises
ExecOutcomes == {"ok", "list", "empty", "timeout", "raise"}

ExecValue(o) ==
    IF o = "ok" THEN [id |-> CommandId, finished_at |-> NONE]
    ELSE IF o = "list" THEN <<[id |-> CommandId, finished_at |-> NONE]>>
    ELSE IF o = "empty" THEN <<>>
    ELSE RemoteValue(o)

\* isinstance(exec_result["data"], list)
IsList(o) == o \in {"list", "empty"}

\* what the request of get_command_result returns: the command still
\* running, the command finished, or a typed error value; or it raises
PollOutcomes == {"pending", "finished", "timeout", "raise"}

PollValue(o) ==
    IF o = "pending" THEN [id |-> CommandId, finished_at |-> NONE]
    ELSE IF o = "finished" THEN [id |-> CommandId, finished_at |-> FinishedAt]
    ELSE RemoteValue(o)

get_command_result(command_id, region, workspace, toks, o) ==
    IF GetToken(toks, region, workspace) = NoCred
    THEN NoTokenFound(region, workspace)
    ELSE IF o = "raise"
    THEN [status |-> "error",
          message |-> <<"Failed to get command result: ", RemoteCause>>]
    ELSE [status |-> "success", data |-> PollValue(o),
          command_id |-> command_id, region |-> region,
          workspace |-> workspace]

\* a faulty completion test: the key's presence is taken for completion
finished_when_key_present(command_data) == "finished_at" \in DOMAIN command_data

\* command_data.get("finished_at") is not None
Finished(command_data) ==
    /\ "finished_at" \in DOMAIN command_data
    /\ command_data.finished_at # NONE

\* the loop condition: (time() - start_time) < timeout
WithinTimeout(elapsed, timeout) == elapsed < timeout

\* a faulty loop body: the next check follows the request without the sleep
poll_without_sleep(elapsed, delay) == elapsed + delay

\* one iteration that does not return: the request, then asyncio.sleep(1)
AfterPoll(elapsed, delay) == elapsed + delay + 1

TimeoutEnvelope(s) ==
    [status |-> "timeout",
     message |-> <<"Command execution timed out after ", Str(s.timeout),
                   " seconds">>,
     command_id |-> s.command_id,
     server_id |-> s.args.server_id,
     region |-> s.args.region,
     workspace |-> s.args.workspace]

CompletedEnvelope(s, command_data) ==
    [status |-> "success",
     data |-> command_data,
     command_id |-> s.command_id,
     server_id |-> s.args.server_id,
     region |-> s.args.region,
     workspace |-> s.args.workspace]

SyncArgs(workspace, region, server_id, timeout) ==
    [timeout |-> timeout] @@ Args(workspace, region, server_id, IdsAbsent)

\* a returned execute_command_sync call, with the command id it obtained,
\* the polls it made and whether one of them reported completion
SyncCall(s, completed, env, invoked) ==
    [command_id |-> s.command_id, polls |-> s.polls, completed |-> completed,
     elapsed |-> s.elapsed, last |-> s.last, seen |-> s.seen]
    @@ Call("execute_command_sync", s.args, s.o,
            Trace("envelope", env, "", <<"credential">>, TRUE, invoked,
                  IF invoked THEN 1 + s.polls ELSE 0, <<>>))

\* the call issues the command; it returns at once when execute_command
\* failed or gave no command id, and starts waiting otherwise
SyncStart ==
    /\ Idle
    /\ \E region \in {"ap1", "us1"}, workspace \in {"demo"},
          timeout \in (0 - 1)..MaxTimeout, o \in ExecOutcomes :
        LET args == SyncArgs(workspace, region, Uuid1, timeout)
            s == [IdleSync EXCEPT !.args = args, !.o = o,
                                  !.timeout = timeout]
        IN  IF GetToken(tokens["shared"], region, workspace) = NoCred
            THEN /\ res' = SyncCall(s, FALSE,
                                    NoTokenFound(region, workspace), FALSE)
                 /\ sync' = IdleSync
            ELSE IF o = "raise"
            THEN /\ res' = SyncCall(s, FALSE,
                                    AfterRemote("execute_command", Uuid1,
                                                region, workspace, o), TRUE)
                 /\ sync' = IdleSync
            ELSE IF IsList(o) /\ Len(ExecValue(o)) = 0
            THEN /\ res' = SyncCall(s, FALSE,
                        [status |-> "error",
                         message |-> <<"No command data returned from execute_command">>],
                        TRUE)
                 /\ sync' = IdleSync
            ELSE IF ~IsList(o) /\ "id" \notin DOMAIN ExecValue(o)
            THEN /\ res' = SyncCall(s, FALSE,
                        [status |-> "error",
                         message |-> <<"Failed to execute command synchronously: ",
                                       "'id'">>],
                        TRUE)
                 /\ sync' = IdleSync
            ELSE /\ sync' = [s EXCEPT !.phase = "polling",
                                      !.command_id =
                                          IF IsList(o) THEN ExecValue(o)[1].id
                                          ELSE ExecValue(o).id]
                 /\ res' = res
    /\ UNCHANGED <<file, tokens, batch, lastSet, prevOp, boot>>

\* one iteration of the loop: the result is fetched; a finished command is
\* returned, anything else is followed by the sleep and the next check
SyncPoll ==
    /\ sync.phase = "polling"
    /\ WithinTimeout(sync.elapsed, sync.timeout)
    /\ \E o \in PollOutcomes, delay \in 0..MaxPollDelay :
        LET result == get_command_result(sync.command_id, sync.args.region,
                                         sync.args.workspace,
                                         tokens["shared"], o)
            polled == [sync EXCEPT !.polls = @ + 1, !.last = o,
                                   !.seen = @ \cup {o}]
        IN  IF Status(result) = "success" /\ Finished(result.data)
            THEN /\ res' = SyncCall(polled, TRUE,
                                    CompletedEnvelope(sync, result.data), TRUE)
                 /\ sync' = IdleSync
            ELSE /\ sync' = [polled EXCEPT
                                !.elapsed = AfterPoll(@, delay)]
                 /\ res' = res
    /\ UNCHANGED <<file, tokens, batch, lastSet, prevOp, boot>>

\* the loop condition fails: the timeout envelope is returned
SyncExpire ==
    /\ sync.phase = "polling"
    /\ ~WithinTimeout(sync.elapsed, sync.timeout)
    /\ res' = SyncCall(sync, FALSE, TimeoutEnvelope(sync), TRUE)
    /\ sync' = IdleSync
    /\ UNCHANGED <<file, tokens, batch, lastSet, prevOp, boot>>

NextSync ==
    \/ SyncStart
    \/ SyncPoll
    \/ SyncExpire
    \/ Respond

\* every request returns and the event loop resumes the waiting call
SpecSync ==
    Init /\ [][NextSync]_vars /\ WF_vars(SyncPoll) /\ WF_vars(SyncExpire)

----------------------------------------------------------------------------
(* CredentialStore on its own: the operations of auth_tools' TokenManager
   back to back.  res is the operation that has just returned, prevOp the
   one before it with the store and the file it left, lastSet the token
   last set for a pair and not removed since. *)

StoreCall(tool, k, value) ==
    Call(tool, Args(k[2], k[1], ABSENT, IdsAbsent), "ok",
         Trace("returned", value, "", <<>>, TRUE, TRUE, 0, <<>>))

Key(call) == <<call.args.region, call.args.workspace>>

Remember ==
    prevOp' = [tool |-> res.tool, key |-> Key(res),
               status |-> IF res.outcome = "returned" THEN Status(res.env)
                          ELSE "",
               tokens |-> tokens["auth"], file |-> file]

\* the process is up: no load raised at start-up
Running == boot.error = ""

StoreSet ==
    /\ Running
    /\ \E k \in StoreKeys, t \in TokenValues :
        LET r == SetToken(tokens["auth"], k[1], k[2], t)
        IN  /\ tokens' = [tokens EXCEPT !["auth"] = r.tokens]
            /\ file' = IF r.saved THEN SaveTokensToFile(r.tokens) ELSE file
            /\ res' = StoreCall("set_token", k, r.result)
            /\ lastSet' = [lastSet EXCEPT ![k] = t]
    /\ Remember
    /\ UNCHANGED <<batch, boot, sync>>

StoreRemove ==
    /\ Running
    /\ \E k \in StoreKeys :
        LET r == RemoveToken(tokens["auth"], k[1], k[2])
        IN  /\ tokens' = [tokens EXCEPT !["auth"] = r.tokens]
            /\ file' = IF r.saved THEN SaveTokensToFile(r.tokens) ELSE file
            /\ res' = StoreCall("remove_token", k, r.result)
            /\ lastSet' = [lastSet EXCEPT ![k] = NONE]
    /\ Remember
    /\ UNCHANGED <<batch, boot, sync>>

StoreGet ==
    /\ Running
    /\ \E k \in StoreKeys :
        res' = StoreCall("get_token", k, GetToken(tokens["auth"], k[1], k[2]))
    /\ Remember
    /\ UNCHANGED <<file, tokens, batch, lastSet, boot, sync>>

NoKey == <<ABSENT, ABSENT>>

StoreGetAll ==
    /\ Running
    /\ res' = StoreCall("get_all_tokens", NoKey, GetAllTokens(tokens["auth"]))
    /\ Remember
    /\ UNCHANGED <<file, tokens, batch, lastSet, boot, sync>>

StoreAuthStatus ==
    /\ Running
    /\ res' = StoreCall("get_auth_status", NoKey,
                        GetAuthStatus(tokens["auth"], boot.dir))
    /\ Remember
    /\ UNCHANGED <<file, tokens, batch, lastSet, boot, sync>>

\* the token files the store may find: in .config when that directory
\* exists, and in config
DevFiles == InitPrimary \cup {UndecodableFile}
ProdFiles == InitOther \cup {CorruptFile, UndecodableFile}

\* the store starts in any checkout, with or without ALPACON_DEV=true and
\* --config-file
InitStore ==
    \E devExists \in BOOLEAN, devMode \in BOOLEAN,
       configFile \in {NONE, OverrideFile},
       devFile \in DevFiles, prodFile \in ProdFiles :
        /\ devExists \/ devFile = MissingFile
        /\ Boots(Started(devExists, devMode, configFile, devFile, prodFile))

NextStore ==
    \/ StoreSet
    \/ StoreRemove
    \/ StoreGet
    \/ StoreGetAll
    \/ StoreAuthStatus

SpecStore == InitStore /\ [][NextStore]_vars

----------------------------------------------------------------------------
(* Properties of the dispatch pipeline.  They read the returned call in
   res; what the call's arguments should lead to is computed here from the
   arguments alone. *)

Returned == res.outcome # "none"

\* the region and the workspace the call is for
CallRegion == IF res.args.region = ABSENT THEN "ap1" ELSE res.args.region
CallWorkspace == res.args.workspace

Dispatched == Returned /\ res.tool \in PipelineTools

\* the tools that take region and workspace
PairTools == (PipelineTools \ {"list_workspaces"}) \cup {"list_servers"} \cup TryTools

RegionInvalid == ~validate_region_format(CallRegion)
WorkspaceMissing ==
    ~("workspace" \in Signature(res.tool).params /\ Truthy(CallWorkspace))
WorkspaceInvalid ==
    Truthy(CallWorkspace) /\ ~validate_workspace_format(CallWorkspace)
ServerIdInvalid ==
    /\ res.args.server_id \notin {ABSENT, NONE}
    /\ ~validate_server_id_format(res.args.server_id)
\* a value that is no list of strings, or a list with an element that is
\* no UUID
ServerIdsInvalid ==
    \/ res.args.server_ids.kind = "int"
    \/ /\ res.args.server_ids.kind = "list"
       /\ \E i \in 1..Len(res.args.server_ids.items) :
             ~validate_server_id_format(res.args.server_ids.items[i])
CredentialMissing ==
    GetToken(tokens["shared"], CallRegion, CallWorkspace) = NoCred

\* the store resolves a usable token for the call's region and workspace
CredentialResolved ==
    Truthy(validate_token(tokens["shared"], CallRegion, CallWorkspace))

CheckOrder ==
    <<"region", "workspace_required", "workspace", "server_id", "server_ids",
      "credential">>

Fails(check) ==
    CASE check = "region" -> RegionInvalid
    [] check = "workspace_required" -> WorkspaceMissing
    [] check = "workspace" -> ~WorkspaceMissing /\ WorkspaceInvalid
    [] check = "server_id" -> ServerIdInvalid
    [] check = "server_ids" -> ServerIdsInvalid
    [] check = "credential" -> ~CredentialResolved

Position(check) == CHOOSE i \in 1..Len(CheckOrder) : CheckOrder[i] = check

\* the earliest check of the order that the call's arguments fail
FirstFailing ==
    IF \E i \in 1..Len(CheckOrder) : Fails(CheckOrder[i])
    THEN CheckOrder[CHOOSE i \in 1..Len(CheckOrder) :
                        /\ Fails(CheckOrder[i])
                        /\ \A j \in 1..(i - 1) : ~Fails(CheckOrder[j])]
    ELSE "none"

ValidationChecks ==
    {"region", "workspace_required", "workspace", "server_id", "server_ids"}

\* the parameter a failing check is about
Offending(check) == IF check = "workspace_required" THEN "workspace" ELSE check

\* C1: for every tool that takes region and workspace, a call in which
\* both the region and the workspace are invalid returns an envelope with
\* field = "region": region is checked before workspace.
C1_RegionCheckedFirst ==
    (/\ Returned
     /\ res.tool \in PairTools
     /\ res.outcome = "envelope"
     /\ RegionInvalid
     /\ WorkspaceInvalid)
    => Field(res.env) = "region"

C4_RejectionsAreFieldTagged ==
    (/\ Dispatched
     /\ BindOK(Signature(res.tool), res.args, {})
     /\ FirstFailing \in ValidationChecks)
    => /\ res.outcome = "envelope"
       /\ Status(res.env) = "error"
       /\ HasMessage(res.env)
       /\ Field(res.env) = Offending(FirstFailing)

\* the tools that need a credential for the (region, workspace) of the call
CredentialTools ==
    PipelineTools \cup {"list_servers"} \cup TryTools
    \cup {"execute_command_multi_server", "alpacon_login"}

\* every required argument of the call is supplied, and server_ids is a
\* list when it is supplied
ArgumentsBind ==
    CASE res.tool \in PipelineTools ->
            /\ BindOK(Signature(res.tool), res.args, {})
            /\ res.args.server_ids.kind # "int"
    [] res.tool = "list_servers" -> CallWorkspace # ABSENT
    [] res.tool \in TryTools ->
            CallWorkspace # ABSENT /\ res.args.server_id # ABSENT
    [] res.tool = "execute_command_multi_server" ->
            res.args.server_ids.kind \notin {"absent", "int"}
    [] OTHER -> TRUE

\* the call is for a (region, workspace) without a stored credential
NoCredentialStored ==
    IF res.tool = "alpacon_login"
    THEN res.o \in {"missing", "no_entry"}
    ELSE CredentialMissing

\* C5: for every tool, a call for a (region, workspace) without a stored
\* credential returns a status = "error" envelope and issues no remote
\* request; the multi-server batch issues no sub-call.
C5_NoCredentialNoRemoteCall ==
    (/\ Returned
     /\ res.tool \in CredentialTools
     /\ ArgumentsBind
     /\ NoCredentialStored)
    => /\ res.outcome = "envelope"
       /\ Status(res.env) = "error"
       /\ res.remote = 0
       /\ res.subcalls = 0

\* C6: no exception crosses the tool boundary: every call, whatever its
\* arguments, returns one response envelope.
C6_NoExceptionCrossesBoundary ==
    Returned => /\ res.outcome = "envelope"
                /\ Status(res.env) \in {"success", "error", "timeout"}

\* C7: when the remote request of a tool ends with a typed error value
\* (network, timeout, non-2xx status), the tool returns status = "error".
C7_TypedErrorIsError ==
    (/\ Returned
     /\ res.outcome = "envelope"
     /\ res.remote > 0
     /\ res.o \in TypedErrors)
    => Status(res.env) = "error"

\* C8: when the handler of a pipeline-wrapped tool raises after validation
\* and credential resolution succeeded, the tool returns status = "error"
\* with the message "Failed in <operation>: <cause>" and the call's
\* workspace and region, and nothing else.
C8_HandlerFailureEnvelope ==
    (/\ Dispatched
     /\ Signature(res.tool).logged
     /\ BindOK(Signature(res.tool), res.args, {})
     /\ FirstFailing = "none"
     /\ res.o = "raise")
    => /\ res.outcome = "envelope"
       /\ res.env = [status |-> "error",
                     message |-> <<"Failed in ", res.tool, ": ", RemoteCause>>,
                     workspace |-> CallWorkspace,
                     region |-> CallRegion]

C8_Witness ==
    /\ Dispatched
    /\ res.tool = "get_cpu_usage"
    /\ res.args.region = ABSENT
    /\ FirstFailing = "none"
    /\ res.o = "raise"
    /\ res.remote = 1
    /\ Status(res.env) = "error"
    /\ \E i \in 1..Len(res.log) :
          res.log[i] = <<"error", "get_cpu_usage", RemoteCause>>

----------------------------------------------------------------------------
(* Properties of the credential store, under SpecStore *)

StoreOp(tool) == res.outcome = "returned" /\ res.tool = tool

\* the previous operation was a remove of the pair of this one, and it
\* deleted a credential
AfterRemoveOfSamePair ==
    /\ prevOp.tool = "remove_token"
    /\ prevOp.status = "success"
    /\ prevOp.key = Key(res)

\* C9: after set(region, workspace, token), whatever is set or removed for
\* other pairs in between, get(region, workspace) returns a credential
\* with the token last set for the pair.
C9_CredentialRoundTrip ==
    (StoreOp("get_token") /\ lastSet[Key(res)] # NONE)
    => /\ res.env # NoCred
       /\ res.env.token = lastSet[Key(res)]
       /\ res.env.region = Key(res)[1]
       /\ res.env.workspace = Key(res)[2]

C9_Witness ==
    /\ StoreOp("get_token")
    /\ Key(res) = <<"ap1", "demo">>
    /\ lastSet[Key(res)] = "t1"
    /\ prevOp.tool \in {"set_token", "remove_token"}
    /\ prevOp.key = <<"ap1", "alpamon">>
    /\ prevOp.status = "success"
    /\ res.env.token = "t1"

\* C10: a remove of a pair that holds a credential succeeds and a second
\* remove of the pair right after it returns the not-found result
\* (status = "error") and leaves the store and the file as they were; a
\* get after the remove returns no credential.
C10_RemoveTwice ==
    /\ (StoreOp("remove_token")
            /\ GetToken(prevOp.tokens, Key(res)[1], Key(res)[2]) # NoCred)
       => /\ Status(res.env) = "success"
          /\ GetToken(tokens["auth"], Key(res)[1], Key(res)[2]) = NoCred
    /\ (StoreOp("remove_token") /\ AfterRemoveOfSamePair)
       => /\ Status(res.env) = "error"
          /\ HasMessage(res.env)
          /\ tokens["auth"] = prevOp.tokens
          /\ file = prevOp.file
    /\ (StoreOp("get_token") /\ AfterRemoveOfSamePair)
       => res.env = NoCred

C10_Witness ==
    /\ StoreOp("remove_token")
    /\ AfterRemoveOfSamePair
    /\ Status(res.env) = "error"
    /\ tokens["auth"] # EmptyMap
    /\ file = OkFile(tokens["auth"])

\* C11: in every state of the credential store, after the initial load and
\* any sequence of set and remove, no region key maps to an empty
\* workspace mapping.
C11_NoEmptyRegionBucket ==
    Running => \A r \in DOMAIN tokens["auth"] : tokens["auth"][r] # EmptyMap

\* the store has loaded and no operation has run yet
JustStarted == res = NoCall /\ prevOp = NoOp

\* C13: when the token file of the store fails to parse at load time, the
\* store starts empty and the failure is not propagated.
C13_UnparsableFileStartsEmpty ==
    (JustStarted /\ boot.primary.state \in {"corrupt", "undecodable"})
    => /\ boot.error = ""
       /\ tokens["auth"] = EmptyMap

\* the directory of the file --config-file names
OverrideDir == "/etc/alpacon"

\* C14: the store's directory is the overridden one when --config-file is
\* given; without an override it is the development directory when that
\* exists or development mode is signalled, else the production directory.
C14_OverrideTakesPrecedence ==
    boot.dir = IF boot.configFile # NONE THEN OverrideDir
               ELSE IF boot.devExists \/ boot.devMode THEN ".config"
               ELSE "config"

\* the workspace a websh call is for
WebshWorkspace == IF CallWorkspace = ABSENT THEN "alpamon" ELSE CallWorkspace

\* C12: the credential store is one in-process authority: a tool call made
\* after auth_set_token or auth_remove_token returned sees the credential
\* of its (region, workspace) exactly when the store that took the
\* mutation holds one.
C12_SingleAuthority ==
    (/\ Returned
     /\ res.tool = "websh_session_create"
     /\ res.outcome = "envelope")
    => (res.env = NoTokenFound(CallRegion, WebshWorkspace)
        <=> GetToken(tokens["auth"], CallRegion, WebshWorkspace) = NoCred)

----------------------------------------------------------------------------
(* Properties of the multi-server batch *)

BatchCall == Returned /\ res.tool = "execute_command_multi_server"

\* the batch ran its targets and returned the aggregate
BatchReturned ==
    /\ BatchCall
    /\ res.outcome = "envelope"
    /\ "deploy_shell_results" \in DOMAIN res.env

Targets == 1..Len(res.args.server_ids.items)

\* C15: for every returned batch, successful_count + failed_count =
\* total_servers = the number of entries of the per-target mapping,
\* repeated identifiers included.
C15_CountsMatchPerTarget ==
    BatchReturned
    => /\ res.env.successful_count + res.env.failed_count
            = res.env.total_servers
       /\ res.env.total_servers
            = Cardinality(DOMAIN res.env.deploy_shell_results)

\* C16: failed_count is the number of targets whose remote call was
\* rejected or failed, successful_count the number whose remote call
\* succeeded, and every target whose remote call was rejected or failed
\* has a per-target envelope with status = "error".
C16_CountsFollowRemoteOutcomes ==
    BatchReturned
    => /\ res.env.failed_count
            = Cardinality({i \in Targets : res.targets[i] # "ok"})
       /\ res.env.successful_count
            = Cardinality({i \in Targets : res.targets[i] = "ok"})
       /\ \A i \in Targets :
             res.targets[i] # "ok"
             => Status(res.env.deploy_shell_results[
                            res.args.server_ids.items[i]]) = "error"

\* C17: a batch called with a non-empty list of targets and a stored
\* credential returns status = "success" at the batch level, whatever
\* happened to its targets.
C17_BatchLevelSuccess ==
    (/\ BatchCall
     /\ res.args.server_ids.kind = "list"
     /\ res.args.server_ids.items # <<>>
     /\ ~CredentialMissing)
    => /\ res.outcome = "envelope"
       /\ Status(res.env) = "success"

C17_Witness ==
    /\ BatchReturned
    /\ Len(res.args.server_ids.items) = 2
    /\ res.env.failed_count = 2
    /\ res.env.successful_count = 0
    /\ \E i \in Targets : res.targets[i] = "raise"
    /\ Status(res.env) = "success"

\* C18: a batch called with an empty list of targets is rejected before
\* any sub-call and any remote call, with status = "error" and field
\* naming the list parameter.
C18_EmptyTargetListFieldTagged ==
    (/\ BatchCall
     /\ res.args.server_ids.kind = "list"
     /\ res.args.server_ids.items = <<>>)
    => /\ res.outcome = "envelope"
       /\ Status(res.env) = "error"
       /\ Field(res.env) = "server_ids"
       /\ res.remote = 0
       /\ res.subcalls = 0

----------------------------------------------------------------------------
(* Properties of the synchronous wait *)

SyncReturned == Returned /\ res.tool = "execute_command_sync"

Waiting == sync.phase = "polling"

AtMost(n) == IF n < 0 THEN 0 ELSE n

SyncBounded ==
    /\ Waiting => sync.polls <= AtMost(sync.timeout)
    /\ SyncReturned
       => /\ res.outcome = "envelope"
          /\ res.polls <= AtMost(res.args.timeout)
    /\ (SyncReturned /\ res.command_id # NONE /\ ~res.completed)
       => /\ Status(res.env) = "timeout"
          /\ res.env.command_id = res.command_id

\* C19: an execute_command_sync call that obtained its command id and whose
\* polls never report completion returns an envelope with status =
\* "timeout" carrying the command id; it never raises, makes at most
\* max(0, timeout) polls and every wait ends, for every timeout.
C19_SyncWaitTimesOut == []SyncBounded /\ (Waiting ~> ~Waiting)

C19_Witness ==
    /\ SyncReturned
    /\ res.command_id = CommandId
    /\ ~res.completed
    /\ res.polls >= 2
    /\ Status(res.env) = "timeout"

----------------------------------------------------------------------------
(* Properties of the server_ids check *)

Elements(seq) == {seq[i] : i \in 1..Len(seq)}

InvalidIds ==
    {sid \in Elements(res.args.server_ids.items) :
        ~validate_server_id_format(sid)}

ListSupplied ==
    /\ Dispatched
    /\ ArgumentsBind
    /\ res.args.server_ids.kind = "list"

\* C20: when a server_ids list is supplied to a pipeline-wrapped tool and
\* no earlier check fails, a list with an invalid element is rejected with
\* field = "server_ids" and a value that holds exactly the invalid
\* elements, all of them and no valid one; a list whose elements are all
\* valid is not rejected by this check.
C20_AllOffendingIdsNamed ==
    ListSupplied
    => /\ FirstFailing = "server_ids"
          => /\ res.outcome = "envelope"
             /\ Status(res.env) = "error"
             /\ Field(res.env) = "server_ids"
             /\ Elements(res.env.value) = InvalidIds
       /\ InvalidIds = {} => Field(res.env) # "server_ids"

C20_Witness ==
    /\ ListSupplied
    /\ FirstFailing = "server_ids"
    /\ res.args.server_ids.items = <<"not-a-uuid", "also-bad">>
    /\ Field(res.env) = "server_ids"
    /\ Elements(res.env.value) = {"not-a-uuid", "also-bad"}

----------------------------------------------------------------------------
(* Properties of optional identifiers *)

IdentifiersNotProvided ==
    /\ res.args.server_id \in {NONE, ABSENT}
    /\ res.args.server_ids.kind \in {"absent", "none"}

\* C21: a call of a pipeline-wrapped tool whose server_id and server_ids
\* are None or not supplied, with a valid region, a valid workspace and a
\* stored credential, passes the identifier checks: it is not rejected
\* with field server_id or server_ids and the handler is invoked.
C21_AbsentIdentifiersPass ==
    (/\ Dispatched
     /\ ArgumentsBind
     /\ IdentifiersNotProvided
     /\ ~RegionInvalid
     /\ ~WorkspaceMissing
     /\ ~WorkspaceInvalid
     /\ CredentialResolved)
    => /\ res.outcome = "envelope"
       /\ Field(res.env) \notin {"server_id", "server_ids"}
       /\ res.invoked

C21_Witness ==
    /\ Dispatched
    /\ res.tool = "_inner"
    /\ res.args.server_id = NONE
    /\ res.args.server_ids.kind = "none"
    /\ CredentialResolved
    /\ res.invoked
    /\ Status(res.env) = "success"

----------------------------------------------------------------------------
(* Properties of the file transfer paths *)

IsAbsolute(path) == Len(Chars(path)) > 0 /\ Chars(path)[1] = "/"

HasTraversal(path) ==
    LET c == Chars(path)
    IN  \E i \in 1..(Len(c) - 1) :
            /\ c[i] = "." /\ c[i + 1] = "."
            /\ i = 1 \/ c[i - 1] = "/"
            /\ i + 1 = Len(c) \/ c[i + 2] = "/"

HasNullByte(path) == \E i \in 1..Len(Chars(path)) : Chars(path)[i] = "NUL"

valid_path(path) == IsAbsolute(path) /\ ~HasTraversal(path) /\ ~HasNullByte(path)

PathParams == {"file_path", "local_file_path", "remote_file_path"}

OffendingPaths ==
    {name \in PathParams : res.args[name] # ABSENT /\ ~valid_path(res.args[name])}

\* C22: a webftp_upload_file call with a path argument that is relative,
\* holds a parent-directory segment or holds a null byte returns
\* status = "error" with field naming an offending path parameter, and
\* makes no remote call.
C22_InvalidPathRejected ==
    (/\ Returned
     /\ res.tool = "webftp_upload_file"
     /\ OffendingPaths # {})
    => /\ res.outcome = "envelope"
       /\ Status(res.env) = "error"
       /\ Field(res.env) \in OffendingPaths
       /\ res.remote = 0

----------------------------------------------------------------------------
(* Properties of the workspace listing *)

\* C23: list_workspaces called with only a valid region returns
\* status = "success" and lists exactly the workspaces stored under that
\* region, none for a region without entries, each with has_token true
\* iff its stored token is not empty.
C23_ListsStoredWorkspaces ==
    (/\ Dispatched
     /\ res.tool = "list_workspaces"
     /\ CallWorkspace = ABSENT
     /\ ~RegionInvalid)
    => /\ res.outcome = "envelope"
       /\ Status(res.env) = "success"
       /\ res.env.data.workspaces = WorkspaceListing(tokens["shared"], CallRegion)

----------------------------------------------------------------------------
(* Properties of the batch's credential *)

\* the get_token calls of one batch: the entry check and one per sub-call
Resolutions == 1 + Len(res.used)

\* C24: a batch that ran its targets resolved the credential once, at
\* entry: no sub-call resolved it again, every target ran with the
\* credential of the entry and none failed for a missing credential,
\* whatever auth_set_token and auth_remove_token calls came in between.
C24_CredentialResolvedOnce ==
    BatchReturned
    => /\ Resolutions = 1
       /\ \A i \in Targets :
             /\ res.used[i] = res.credential
             /\ res.targets[i] # "none"

----------------------------------------------------------------------------
(* Properties of the batch's dispatch *)

RunningBatch == batch.phase = "running"

\* how a sub-call can end: an outcome of its request, or no credential
SubcallEndings == BatchOutcomes \cup {"none"}

IsPermutation(seq, S) ==
    /\ Len(seq) = Cardinality(S)
    /\ {seq[k] : k \in 1..Len(seq)} = S

\* C25: in parallel mode every target gets its invocation, an invocation
\* that was started is in flight or has settled by itself (a sibling's
\* failure neither cancels nor skips it), and the batch returns only when
\* every invocation has settled, whatever the order of the completions.
C25_ParallelWaitsForAll ==
    /\ (RunningBatch /\ batch.parallel)
       => /\ batch.started = batch.inflight \cup DOMAIN batch.outcomes
          /\ batch.inflight \cap DOMAIN batch.outcomes = {}
          /\ \A i \in DOMAIN batch.outcomes : batch.outcomes[i] \in SubcallEndings
          /\ res.outcome = "none"
    /\ (BatchReturned /\ res.parallel)
       => /\ res.subcalls = Len(res.args.server_ids.items)
          /\ DOMAIN res.targets = Targets
          /\ \A i \in Targets : res.targets[i] \in SubcallEndings
          /\ IsPermutation(res.order, Targets)

C25_Witness ==
    /\ BatchReturned
    /\ res.parallel
    /\ res.order = <<2, 1>>
    /\ res.targets[2] = "raise"
    /\ res.targets[1] = "ok"

\* C26: in sequential mode at most one invocation is in flight, the
\* invocations are issued and settle in the order of the list, each after
\* the one before it has settled, and every target of the list is invoked
\* even when an earlier one failed.
C26_SequentialInOrder ==
    /\ (RunningBatch /\ ~batch.parallel)
       => /\ batch.started = 1..Cardinality(batch.started)
          /\ batch.inflight \subseteq {Cardinality(batch.started)}
          /\ DOMAIN batch.outcomes = batch.started \ batch.inflight
          /\ batch.order = [k \in 1..Len(batch.order) |-> k]
    /\ (BatchReturned /\ ~res.parallel)
       => /\ res.subcalls = Len(res.args.server_ids.items)
          /\ DOMAIN res.targets = Targets
          /\ res.order = [k \in Targets |-> k]

C26_Witness ==
    /\ BatchReturned
    /\ ~res.parallel
    /\ res.order = <<1, 2>>
    /\ res.targets[1] = "raise"
    /\ res.targets[2] = "ok"

\* the envelope the invocation for position i returned
TargetResult(i) ==
    IF res.targets[i] = "none"
    THEN NoTokenFound(res.env.region, res.env.workspace)
    ELSE AfterRemote("execute_command", res.args.server_ids.items[i],
                     res.env.region, res.env.workspace, res.targets[i])

\* C27: in parallel mode, for every order of the completions, every
\* target identifier of the list has an entry in deploy_shell_results and
\* the entry under an identifier is the envelope returned by an invocation
\* issued for that identifier.
C27_KeyedByTarget ==
    (BatchReturned /\ res.parallel)
    => /\ DOMAIN res.env.deploy_shell_results
            = {res.args.server_ids.items[i] : i \in Targets}
       /\ \A sid \in DOMAIN res.env.deploy_shell_results :
             \E i \in Targets :
                /\ res.args.server_ids.items[i] = sid
                /\ res.env.deploy_shell_results[sid] = TargetResult(i)

C27_Witness ==
    /\ BatchReturned
    /\ res.parallel
    /\ res.args.server_ids.items = <<Uuid1, Uuid2>>
    /\ res.order = <<2, 1>>
    /\ res.targets = <<"timeout", "ok">>
    /\ res.env.deploy_shell_results[Uuid1] = TargetResult(1)
    /\ res.env.deploy_shell_results[Uuid2] = TargetResult(2)

----------------------------------------------------------------------------
(* Properties of the persisted store *)

Mutations == {"set_token", "remove_token"}
Reads == {"get_token", "get_all_tokens", "get_auth_status"}

StoreReturned == res.outcome = "returned"

\* C28: after a successful set or remove the token file is a readable
\* document that holds the whole in-memory mapping and nothing else, and
\* an entry written by set has the fields token, workspace and region; a
\* get, a get_all_tokens and a get_auth_status leave the file and the
\* mapping as they were.
C28_FileMirrorsStore ==
    /\ (StoreReturned /\ res.tool \in Mutations /\ Status(res.env) = "success")
       => /\ file.state = "ok"
          /\ file.data = Dump(tokens["auth"])
          /\ Parse(file.data) = tokens["auth"]
    /\ (StoreReturned /\ res.tool = "set_token")
       => LET e == tokens["auth"][Key(res)[1]][Key(res)[2]]
          IN  /\ DOMAIN e = {"token", "workspace", "region"}
              /\ e.region = Key(res)[1]
              /\ e.workspace = Key(res)[2]
    /\ (StoreReturned /\ res.tool \in Reads)
       => /\ tokens["auth"] = prevOp.tokens
          /\ file = prevOp.file

C28_Witness ==
    /\ StoreReturned
    /\ res.tool = "remove_token"
    /\ Status(res.env) = "success"
    /\ prevOp.tool = "get_all_tokens"
    /\ DOMAIN tokens["auth"] = {"ap1", "us1"}
    /\ Parse(file.data) = tokens["auth"]
    /\ prevOp.file # file

----------------------------------------------------------------------------
(* Properties of the synchronous wait's completion *)

\* C29: execute_command_sync returns status = "success" only when its
\* last poll returned a record whose finished_at is set, and that record
\* is the data it returns; after a poll that failed or returned an
\* unfinished record the call keeps waiting, and a call that got its
\* command id returns without completion only when the timeout has
\* elapsed.
C29_SuccessOnlyWhenFinished ==
    /\ Waiting => res.outcome = "none"
    /\ (SyncReturned /\ Status(res.env) = "success")
       => /\ res.last = "finished"
          /\ res.polls >= 1
          /\ res.env.data = PollValue("finished")
          /\ res.env.data.finished_at # NONE
    /\ (SyncReturned /\ res.command_id # NONE /\ res.last # "finished")
       => /\ Status(res.env) = "timeout"
          /\ res.elapsed >= res.args.timeout

C29_Witness ==
    /\ SyncReturned
    /\ Status(res.env) = "success"
    /\ res.polls = 3
    /\ res.seen = {"raise", "pending", "finished"}

----------------------------------------------------------------------------
(* Properties of the credential handed to the handler *)

CallerSuppliedToken == DOMAIN CallerKwargs(res.args) # {}

\* C30: a call that carries a token or _token keyword of the caller's own
\* does not raise, and when the handler is invoked the token it receives
\* is the one the store holds for the call's region and workspace, never
\* the caller's value: the result does not depend on that value.
C30_HandlerGetsStoredCredential ==
    (Dispatched /\ CallerSuppliedToken)
    => /\ res.outcome = "envelope"
       /\ (res.tool = "_inner" /\ res.invoked)
          => /\ res.env.token
                    = validate_token(tokens["shared"], CallRegion, CallWorkspace)
             /\ res.env.token # "forged"

C30_Witness ==
    /\ Dispatched
    /\ res.tool = "_inner"
    /\ CallerKwargs(res.args) = [n \in {"token", "_token"} |-> "forged"]
    /\ res.invoked
    /\ res.env.token = "t1"

====
